---- MODULE Spec2Model ----
(***************************************************************************)
(* Model of release/core.py: one Release.execute() call over a sequence of *)
(* Steps, with the rollback cascade of Release.rollback().  Collaborator   *)
(* calls (check, precondition, action, rollback_action) are the atomic     *)
(* steps of the model; their outcomes are nondeterministic inputs.         *)
(***************************************************************************)
EXTENDS Integers, Sequences, FiniteSets, TLC

\* Bounds of the model.
MaxSteps == 3
MaxState == 1

\* Observed states of the one shared system state (what check() returns).
States == 0 .. MaxState
None == -1
StepIds == 1 .. MaxSteps

VARIABLES
    steps,           \* Release.steps: the supplied sequence of steps
    expected,        \* Step.expected, per step
    initial,         \* Step.initial, per step (None until stored)
    stdout_variable, \* Release.stdout_variable
    executed_steps,  \* Release.executed_steps
    exceptions,      \* Release.exceptions
    sys,             \* the live system state the collaborators act on
    pc,              \* position of the control flow
    i,               \* index of the for loop of Release.execute
    r,               \* index of the for loop of Release.rollback
    final,           \* local 'final' of Step.execute
    pending,         \* the exception in flight (caught by an except clause)
    raised,          \* the exception Release.execute raised to its caller
    rollback_error,  \* the exception caught by 'except Exception' in rollback
    reported,        \* what explain_exceptions printed, in order
    explained,       \* number of calls of explain_exceptions
    flushed,         \* number of times the buffered transcript was printed
    sys0,            \* history: system state before the first step
    calls,           \* history: collaborator calls, in order of invocation
    started,         \* history: steps whose execute() was invoked, in order
    returned,        \* history: steps whose execute() returned or raised
    rolled,          \* history: steps whose rollback() was invoked, in order
    at_rollback      \* history: executed_steps when Release.rollback started

vars == <<steps, expected, initial, stdout_variable, executed_steps,
          exceptions, sys, pc, i, r, final, pending, raised, rollback_error,
          reported, explained, flushed, sys0, calls, started, returned,
          rolled, at_rollback>>

----------------------------------------------------------------------------
\* Phases and exceptions

Phase == {"CHECK_INITIAL", "CHECK_FINAL", "CHECK_ROLLBACK", "EXECUTE", "ROLLBACK"}

NoError == [kind |-> "None", name |-> 0, phase |-> "None",
            state |-> None, expected_state |-> None]

ExecutionError(name, phase) ==
    [kind |-> "Execution", name |-> name, phase |-> phase,
     state |-> None, expected_state |-> None]

PreconditionError(name, state) ==
    [kind |-> "Precondition", name |-> name, phase |-> "None",
     state |-> state, expected_state |-> None]

PostconditionError(name, actual_state, expected_state) ==
    [kind |-> "Postcondition", name |-> name, phase |-> "None",
     state |-> actual_state, expected_state |-> expected_state]

RollbackPostconditionError(name, actual_state, expected_state) ==
    [kind |-> "RollbackPostcondition", name |-> name, phase |-> "None",
     state |-> actual_state, expected_state |-> expected_state]

\* Variant of ForeignError: the predicate is wrapped like a check.
ForeignError_wrapped(name) ==
    [kind |-> "Execution", name |-> name, phase |-> "CHECK_INITIAL",
     state |-> None, expected_state |-> None]

\* An exception raised by the precondition predicate itself: it is not
\* wrapped (only check, action and rollback_action are).
ForeignError(name) ==
    [kind |-> "Foreign", name |-> name, phase |-> "None",
     state |-> None, expected_state |-> None]

\* Variant of wrap: the phase of the call site is lost.
wrap_untagged(name, phase) == ExecutionError(name, "EXECUTE")

\* Step.wrap: a failure of the wrapped call becomes an ExecutionError
\* tagged with the phase of the call site.
wrap(name, phase) == ExecutionError(name, phase)

Call(op, step, ok) == [op |-> op, step |-> step, ok |-> ok]

Reverse(s) == [k \in 1 .. Len(s) |-> s[Len(s) + 1 - k]]

----------------------------------------------------------------------------
\* Construction

Init ==
    /\ \E n \in 0 .. MaxSteps :
          /\ steps = [k \in 1 .. n |-> k]
          /\ expected \in [StepIds -> States]
          /\ \A k \in StepIds : k > n => expected[k] = 0
    /\ initial = [s \in StepIds |-> None]
    /\ stdout_variable \in BOOLEAN
    /\ executed_steps = <<>>
    /\ exceptions = <<>>
    /\ sys \in States
    /\ sys0 = sys
    /\ pc = "loop"
    /\ i = 1
    /\ r = 1
    /\ final = None
    /\ pending = NoError
    /\ raised = NoError
    /\ rollback_error = NoError
    /\ reported = <<>>
    /\ explained = 0
    /\ flushed = 0
    /\ calls = <<>>
    /\ started = <<>>
    /\ returned = {}
    /\ rolled = <<>>
    /\ at_rollback = <<>>

----------------------------------------------------------------------------
\* Step.execute, driven by the for loop of Release.execute

config == <<steps, expected, stdout_variable, sys0>>
release_lists == <<executed_steps, exceptions>>
rollback_state == <<r, rollback_error, rolled, at_rollback>>
report_state == <<reported, explained, flushed, raised>>

\* The step the for loop of Release.execute is at.
step == steps[i]

\* for step in self.steps: ...; step.execute()
BeginStep ==
    /\ pc = "loop"
    /\ i <= Len(steps)
    /\ started' = Append(started, step)
    /\ pc' = "check_initial"
    /\ UNCHANGED <<config, release_lists, rollback_state, report_state,
                   initial, sys, i, final, pending, calls, returned>>

\* Variant of CheckInitial: the observed state is not stored on the step.
CheckInitial_nostore ==
    /\ pc = "check_initial"
    /\ \/ /\ calls' = Append(calls, Call("check_initial", step, TRUE))
          /\ pc' = "precondition"
          /\ UNCHANGED <<pending, returned>>
       \/ /\ calls' = Append(calls, Call("check_initial", step, FALSE))
          /\ pending' = wrap(step, "CHECK_INITIAL")
          /\ returned' = returned \cup {step}
          /\ pc' = "except"
    /\ UNCHANGED <<config, release_lists, rollback_state, report_state,
                   initial, sys, i, final, started>>

\* initial = self.check_initial(); self.initial = initial
CheckInitial ==
    /\ pc = "check_initial"
    /\ \/ /\ calls' = Append(calls, Call("check_initial", step, TRUE))
          /\ initial' = [initial EXCEPT ![step] = sys]
          /\ pc' = "precondition"
          /\ UNCHANGED <<pending, returned>>
       \/ /\ calls' = Append(calls, Call("check_initial", step, FALSE))
          /\ pending' = wrap(step, "CHECK_INITIAL")
          /\ returned' = returned \cup {step}
          /\ pc' = "except"
          /\ UNCHANGED initial
    /\ UNCHANGED <<config, release_lists, rollback_state, report_state,
                   sys, i, final, started>>

\* if self.precondition(initial): ... else: raise PreconditionError
Precondition ==
    /\ pc = "precondition"
    /\ \/ /\ calls' = Append(calls, Call("precondition", step, TRUE))
          /\ \/ /\ pc' = "action"
                /\ UNCHANGED <<pending, returned>>
             \/ /\ pending' = PreconditionError(step, initial[step])
                /\ returned' = returned \cup {step}
                /\ pc' = "except"
       \/ /\ calls' = Append(calls, Call("precondition", step, FALSE))
          /\ pending' = ForeignError(step)
          /\ returned' = returned \cup {step}
          /\ pc' = "except"
    /\ UNCHANGED <<config, release_lists, rollback_state, report_state,
                   initial, sys, i, final, started>>

\* self.action(): atomic, a failed action leaves the system as it was
Action ==
    /\ pc = "action"
    /\ \/ /\ calls' = Append(calls, Call("action", step, TRUE))
          /\ sys' \in States
          /\ pc' = "check_final"
          /\ UNCHANGED <<pending, returned>>
       \/ /\ calls' = Append(calls, Call("action", step, FALSE))
          /\ pending' = wrap(step, "EXECUTE")
          /\ returned' = returned \cup {step}
          /\ pc' = "except"
          /\ UNCHANGED sys
    /\ UNCHANGED <<config, release_lists, rollback_state, report_state,
                   initial, i, final, started>>

\* final = self.check_final()
CheckFinal ==
    /\ pc = "check_final"
    /\ \/ /\ calls' = Append(calls, Call("check_final", step, TRUE))
          /\ final' = sys
          /\ pc' = "postcondition"
          /\ UNCHANGED <<pending, returned>>
       \/ /\ calls' = Append(calls, Call("check_final", step, FALSE))
          /\ pending' = wrap(step, "CHECK_FINAL")
          /\ returned' = returned \cup {step}
          /\ pc' = "except"
          /\ UNCHANGED final
    /\ UNCHANGED <<config, release_lists, rollback_state, report_state,
                   initial, sys, i, started>>

\* Variant of Postcondition: the comparison is an ordering, not equality.
Postcondition_atleast ==
    /\ pc = "postcondition"
    /\ returned' = returned \cup {step}
    /\ IF final >= expected[step]
       THEN /\ pc' = "append"
            /\ UNCHANGED pending
       ELSE /\ pending' = PostconditionError(step, final, expected[step])
            /\ pc' = "except"
    /\ UNCHANGED <<config, release_lists, rollback_state, report_state,
                   initial, sys, i, final, calls, started>>

\* if final == self.expected: ... else: raise PostconditionError
Postcondition ==
    /\ pc = "postcondition"
    /\ returned' = returned \cup {step}
    /\ IF final = expected[step]
       THEN /\ pc' = "append"
            /\ UNCHANGED pending
       ELSE /\ pending' = PostconditionError(step, final, expected[step])
            /\ pc' = "except"
    /\ UNCHANGED <<config, release_lists, rollback_state, report_state,
                   initial, sys, i, final, calls, started>>

----------------------------------------------------------------------------
\* Release.execute: what follows step.execute()

\* Variant of ExecuteReturn: the loop skips the step after a successful one.
ExecuteReturn_skip ==
    /\ pc = "append"
    /\ executed_steps' = Append(executed_steps, step)
    /\ i' = i + 2
    /\ pc' = "loop"
    /\ UNCHANGED <<config, exceptions, rollback_state, report_state, initial,
                   sys, final, pending, calls, started, returned>>

\* Variant of ExecuteReturn: the successful step is not appended.
ExecuteReturn_noappend ==
    /\ pc = "append"
    /\ i' = i + 1
    /\ pc' = "loop"
    /\ UNCHANGED <<config, release_lists, rollback_state, report_state,
                   initial, sys, final, pending, calls, started, returned>>

\* step.execute() returned: self.executed_steps.append(step); next step
ExecuteReturn ==
    /\ pc = "append"
    /\ executed_steps' = Append(executed_steps, step)
    /\ i' = i + 1
    /\ pc' = "loop"
    /\ UNCHANGED <<config, exceptions, rollback_state, report_state, initial,
                   sys, final, pending, calls, started, returned>>

\* self.rollback() is entered: the for loop starts at the first element
EnterRollback ==
    /\ r' = 1
    /\ at_rollback' = executed_steps'
    /\ pc' = "rollback"

\* Variant of ExceptPrecondition: the failing step is appended as well.
ExceptPrecondition_append ==
    /\ pc = "except"
    /\ pending.kind = "Precondition"
    /\ exceptions' = Append(exceptions, pending)
    /\ executed_steps' = Append(executed_steps, step)
    /\ EnterRollback
    /\ UNCHANGED <<config, report_state, rollback_error, rolled, initial,
                   sys, i, final, pending, calls, started, returned>>

\* except PreconditionError as exception
ExceptPrecondition ==
    /\ pc = "except"
    /\ pending.kind = "Precondition"
    /\ exceptions' = Append(exceptions, pending)
    /\ UNCHANGED executed_steps
    /\ EnterRollback
    /\ UNCHANGED <<config, report_state, rollback_error, rolled, initial,
                   sys, i, final, pending, calls, started, returned>>

\* Variant of ExceptPostcondition: the failing step is not appended.
ExceptPostcondition_noappend ==
    /\ pc = "except"
    /\ pending.kind = "Postcondition"
    /\ exceptions' = Append(exceptions, pending)
    /\ UNCHANGED executed_steps
    /\ EnterRollback
    /\ UNCHANGED <<config, report_state, rollback_error, rolled, initial,
                   sys, i, final, pending, calls, started, returned>>

\* except PostconditionError as exception
ExceptPostcondition ==
    /\ pc = "except"
    /\ pending.kind = "Postcondition"
    /\ exceptions' = Append(exceptions, pending)
    /\ executed_steps' = Append(executed_steps, step)
    /\ EnterRollback
    /\ UNCHANGED <<config, report_state, rollback_error, rolled, initial,
                   sys, i, final, pending, calls, started, returned>>

\* Variants of AppendsOnExecutionError: a failed action also counts as
\* executed; every phase counts as executed.
AppendsOnExecutionError_action(phase) == phase \in {"CHECK_FINAL", "EXECUTE"}
AppendsOnExecutionError_always(phase) == phase \in Phase

\* if exception.phase == Phase.CHECK_FINAL
AppendsOnExecutionError(phase) == phase = "CHECK_FINAL"

\* except ExecutionError as exception
ExceptExecution ==
    /\ pc = "except"
    /\ pending.kind = "Execution"
    /\ exceptions' = Append(exceptions, pending)
    /\ IF AppendsOnExecutionError(pending.phase)
       THEN executed_steps' = Append(executed_steps, step)
       ELSE UNCHANGED executed_steps
    /\ EnterRollback
    /\ UNCHANGED <<config, report_state, rollback_error, rolled, initial,
                   sys, i, final, pending, calls, started, returned>>

\* No except clause matches: the exception leaves Release.execute at once.
Propagate ==
    /\ pc = "except"
    /\ pending.kind \notin {"Precondition", "Postcondition", "Execution"}
    /\ raised' = pending
    /\ pc' = "done"
    /\ UNCHANGED <<config, release_lists, rollback_state, reported, explained,
                   flushed, initial, sys, i, final, pending, calls, started,
                   returned>>

\* Variant of Reraise: a failure of the cascade replaces the original error.
Reraise_last ==
    /\ pc = "reraise"
    /\ raised' = IF rollback_error # NoError THEN rollback_error ELSE pending
    /\ pc' = "done"
    /\ UNCHANGED <<config, release_lists, rollback_state, reported, explained,
                   flushed, initial, sys, i, final, pending, calls, started,
                   returned>>

\* Variant of Reraise: the error is dropped and the loop goes on.
Reraise_continue ==
    /\ pc = "reraise"
    /\ i' = i + 1
    /\ pc' = "loop"
    /\ UNCHANGED <<config, release_lists, rollback_state, report_state,
                   initial, sys, final, pending, calls, started, returned>>

\* raise exception, the last statement of each except clause
Reraise ==
    /\ pc = "reraise"
    /\ raised' = pending
    /\ pc' = "done"
    /\ UNCHANGED <<config, release_lists, rollback_state, reported, explained,
                   flushed, initial, sys, i, final, pending, calls, started,
                   returned>>

\* Variant of Flush: the transcript is printed whoever owns the sink.
Flush_always ==
    /\ pc = "loop"
    /\ i > Len(steps)
    /\ flushed' = flushed + 1
    /\ pc' = "done"
    /\ UNCHANGED <<config, release_lists, rollback_state, reported, explained,
                   raised, initial, sys, i, final, pending, calls, started,
                   returned>>

\* The loop is exhausted: if self.stdout_variable: print(out)
Flush ==
    /\ pc = "loop"
    /\ i > Len(steps)
    /\ flushed' = IF stdout_variable THEN flushed + 1 ELSE flushed
    /\ pc' = "done"
    /\ UNCHANGED <<config, release_lists, rollback_state, reported, explained,
                   raised, initial, sys, i, final, pending, calls, started,
                   returned>>

----------------------------------------------------------------------------
\* Release.rollback and Step.rollback

\* for step in self.executed_steps: the order of iteration
RollbackOrder(executed) == executed

\* The step the for loop of Release.rollback is at.
rstep == RollbackOrder(executed_steps)[r]

\* Variant of RollbackLoop: the errors are explained inside the loop.
RollbackLoop_explain ==
    /\ pc = "rollback"
    /\ IF r <= Len(executed_steps)
       THEN /\ rolled' = Append(rolled, rstep)
            /\ reported' = Reverse(exceptions)
            /\ pc' = "rollback_action"
       ELSE /\ pc' = "explain"
            /\ UNCHANGED <<rolled, reported>>
    /\ UNCHANGED <<config, release_lists, explained, flushed, raised, r,
                   rollback_error, at_rollback, initial, sys, i, final,
                   pending, calls, started, returned>>

\* for step in self.executed_steps: step.rollback()
RollbackLoop ==
    /\ pc = "rollback"
    /\ IF r <= Len(executed_steps)
       THEN /\ rolled' = Append(rolled, rstep)
            /\ pc' = "rollback_action"
       ELSE /\ pc' = "explain"
            /\ UNCHANGED rolled
    /\ UNCHANGED <<config, release_lists, report_state, r, rollback_error,
                   at_rollback, initial, sys, i, final, pending, calls,
                   started, returned>>

\* self.rollback_action()
RollbackAction ==
    /\ pc = "rollback_action"
    /\ \/ /\ calls' = Append(calls, Call("rollback_action", rstep, TRUE))
          /\ sys' \in States
          /\ pc' = "check_rollback"
          /\ UNCHANGED rollback_error
       \/ /\ calls' = Append(calls, Call("rollback_action", rstep, FALSE))
          /\ rollback_error' = wrap(rstep, "ROLLBACK")
          /\ pc' = "rollback_except"
          /\ UNCHANGED sys
    /\ UNCHANGED <<config, release_lists, report_state, r, rolled,
                   at_rollback, initial, i, final, pending, started, returned>>

\* Variant of CheckRollback: a step rolled back is removed from the list.
CheckRollback_pop ==
    /\ pc = "check_rollback"
    /\ \/ /\ calls' = Append(calls, Call("check_rollback", rstep, TRUE))
          /\ IF sys = initial[rstep]
             THEN /\ executed_steps' = Tail(executed_steps)
                  /\ pc' = "rollback"
                  /\ UNCHANGED rollback_error
             ELSE /\ rollback_error' =
                        RollbackPostconditionError(rstep, sys, initial[rstep])
                  /\ pc' = "rollback_except"
                  /\ UNCHANGED executed_steps
       \/ /\ calls' = Append(calls, Call("check_rollback", rstep, FALSE))
          /\ rollback_error' = wrap(rstep, "CHECK_ROLLBACK")
          /\ pc' = "rollback_except"
          /\ UNCHANGED executed_steps
    /\ UNCHANGED <<config, exceptions, report_state, r, rolled, at_rollback,
                   initial, sys, i, final, pending, started, returned>>

\* Variant of CheckRollback: the observed state is compared with expected.
CheckRollback_expected ==
    /\ pc = "check_rollback"
    /\ \/ /\ calls' = Append(calls, Call("check_rollback", rstep, TRUE))
          /\ IF sys = expected[rstep]
             THEN /\ r' = r + 1
                  /\ pc' = "rollback"
                  /\ UNCHANGED rollback_error
             ELSE /\ rollback_error' =
                        RollbackPostconditionError(rstep, sys, expected[rstep])
                  /\ pc' = "rollback_except"
                  /\ UNCHANGED r
       \/ /\ calls' = Append(calls, Call("check_rollback", rstep, FALSE))
          /\ rollback_error' = wrap(rstep, "CHECK_ROLLBACK")
          /\ pc' = "rollback_except"
          /\ UNCHANGED r
    /\ UNCHANGED <<config, release_lists, report_state, rolled, at_rollback,
                   initial, sys, i, final, pending, started, returned>>

\* final = self.check_rollback(); if not final == self.initial: raise
CheckRollback ==
    /\ pc = "check_rollback"
    /\ \/ /\ calls' = Append(calls, Call("check_rollback", rstep, TRUE))
          /\ IF sys = initial[rstep]
             THEN /\ r' = r + 1
                  /\ pc' = "rollback"
                  /\ UNCHANGED rollback_error
             ELSE /\ rollback_error' =
                        RollbackPostconditionError(rstep, sys, initial[rstep])
                  /\ pc' = "rollback_except"
                  /\ UNCHANGED r
       \/ /\ calls' = Append(calls, Call("check_rollback", rstep, FALSE))
          /\ rollback_error' = wrap(rstep, "CHECK_ROLLBACK")
          /\ pc' = "rollback_except"
          /\ UNCHANGED r
    /\ UNCHANGED <<config, release_lists, report_state, rolled, at_rollback,
                   initial, sys, i, final, pending, started, returned>>

\* Variant of RollbackExcept: the cascade goes on with the next step.
RollbackExcept_continue ==
    /\ pc = "rollback_except"
    /\ r' = r + 1
    /\ pc' = "rollback"
    /\ UNCHANGED <<config, release_lists, report_state, rollback_error,
                   rolled, at_rollback, initial, sys, i, final, pending,
                   calls, started, returned>>

\* except Exception: break
RollbackExcept ==
    /\ pc = "rollback_except"
    /\ pc' = "explain"
    /\ UNCHANGED <<config, release_lists, report_state, rollback_state,
                   initial, sys, i, final, pending, calls, started, returned>>

\* self.explain_exceptions(): reverse the list in place and explain each
explain_exceptions ==
    /\ pc = "explain"
    /\ explained' = explained + 1
    /\ IF exceptions # <<>>
       THEN /\ exceptions' = Reverse(exceptions)
            /\ reported' = exceptions'
       ELSE UNCHANGED <<exceptions, reported>>
    /\ pc' = "reraise"
    /\ UNCHANGED <<config, executed_steps, rollback_state, flushed, raised,
                   initial, sys, i, final, pending, calls, started, returned>>

----------------------------------------------------------------------------

Next ==
    \/ BeginStep
    \/ CheckInitial
    \/ Precondition
    \/ Action
    \/ CheckFinal
    \/ Postcondition
    \/ ExecuteReturn
    \/ ExceptPrecondition
    \/ ExceptPostcondition
    \/ ExceptExecution
    \/ Propagate
    \/ Reraise
    \/ Flush
    \/ RollbackLoop
    \/ RollbackAction
    \/ CheckRollback
    \/ RollbackExcept
    \/ explain_exceptions

Spec == Init /\ [][Next]_vars

TypeOK ==
    /\ pc \in {"loop", "check_initial", "precondition", "action",
               "check_final", "postcondition", "append", "except",
               "rollback", "rollback_action", "check_rollback",
               "rollback_except", "explain", "reraise", "done"}
    /\ sys \in States
    /\ initial \in [StepIds -> States \cup {None}]
    /\ i \in 1 .. MaxSteps + 1
    /\ r \in 1 .. MaxSteps + 1

----------------------------------------------------------------------------
\* Vocabulary of the properties

Range(s) == {s[k] : k \in 1 .. Len(s)}
Count(s, x) == Cardinality({k \in 1 .. Len(s) : s[k] = x})
IndexIn(s, x) == CHOOSE k \in 1 .. Len(s) : s[k] = x

\* Steps whose action call returned without failure.
ActionOk == {calls[k].step : k \in {j \in 1 .. Len(calls) :
                 calls[j].op = "action" /\ calls[j].ok}}

\* Steps some rollback-side collaborator call was made for.
RollbackCalled == {calls[k].step : k \in {j \in 1 .. Len(calls) :
                 calls[j].op \in {"rollback_action", "check_rollback"}}}

StepErrorKinds == {"Precondition", "Postcondition", "Execution"}

\* Release.execute has raised one of the errors that trigger the cascade.
Failed == pc = "done" /\ raised.kind \in StepErrorKinds

----------------------------------------------------------------------------
\* C1: of two steps rolled back in one cascade, the one appended to
\* executed_steps later has its rollback() invoked first.
C1_ReverseOrder ==
    \A a, b \in 1 .. Len(rolled) :
        a < b => IndexIn(executed_steps, rolled[a]) >
                 IndexIn(executed_steps, rolled[b])

\* C2: when execute() has failed and no rollback call of the cascade failed,
\* the system state is the one observed before the first step's action.
C2_StateRestored ==
    (Failed /\ rollback_error = NoError) => sys = sys0

\* C3: when rollback() starts and when execute() finishes, executed_steps
\* holds exactly the steps whose action call returned without failure,
\* each once.
C3_ExecutedIsActed ==
    (pc = "rollback" \/ pc = "done") =>
        /\ Range(executed_steps) = ActionOk
        /\ Len(executed_steps) = Cardinality(ActionOk)
        /\ pc = "done" /\ raised # NoError /\ raised.kind # "Foreign"
              => at_rollback = executed_steps

C3_Witness ==
    /\ pc = "done"
    /\ raised.kind = "Execution"
    /\ raised.phase = "CHECK_FINAL"
    /\ executed_steps = <<1, 2>>

\* C4: once an Execution error of a step's execute() has been handled, it
\* is recorded, and the step is in executed_steps iff the phase is
\* CHECK_FINAL; for CHECK_INITIAL and EXECUTE the step is not appended and
\* no rollback of it is ever invoked.
C4_ExecutionErrorAppend ==
    (pending.kind = "Execution" /\ pc # "except") =>
        /\ pending \in Range(exceptions)
        /\ (step \in Range(executed_steps)) <=> (pending.phase = "CHECK_FINAL")
        /\ pending.phase \in {"CHECK_INITIAL", "EXECUTE"} =>
              /\ step \notin Range(executed_steps)
              /\ step \notin Range(rolled)
              /\ step \notin RollbackCalled

C4_Witness ==
    /\ pc = "done"
    /\ raised.kind = "Execution"
    /\ raised.phase = "EXECUTE"
    /\ i = 3
    /\ rolled = <<1, 2>>

\* C5: step k fails its precondition after k-1 successes and no rollback
\* call fails: step k is not in executed_steps, rollback() was invoked
\* exactly once on each of the first k-1 steps and on no other, and the
\* Precondition error is raised to the caller.
C5_PreconditionFailure ==
    (pc = "done" /\ pending.kind = "Precondition" /\ rollback_error = NoError) =>
        /\ step \notin Range(executed_steps)
        /\ \A s \in StepIds : Count(rolled, s) = IF s < i THEN 1 ELSE 0
        /\ raised = PreconditionError(step, initial[step])

C5_Witness ==
    /\ pc = "done"
    /\ raised.kind = "Precondition"
    /\ rollback_error = NoError
    /\ i = 3
    /\ Len(rolled) = 2

\* C6: step k fails its postcondition after k-1 successes and no rollback
\* call fails: step k is in executed_steps, rollback() was invoked exactly
\* once on each of the first k steps and on no later one, and the
\* Postcondition error is raised to the caller.
C6_PostconditionFailure ==
    (pc = "done" /\ pending.kind = "Postcondition" /\ rollback_error = NoError) =>
        /\ Count(executed_steps, step) = 1
        /\ \A s \in StepIds : Count(rolled, s) = IF s <= i THEN 1 ELSE 0
        /\ raised = PostconditionError(step, final, expected[step])
        /\ final # expected[step]

C6_Witness ==
    /\ pc = "done"
    /\ raised.kind = "Postcondition"
    /\ rollback_error = NoError
    /\ i = 3
    /\ Len(rolled) = 3

\* C7: once a step's rollback() has failed, no collaborator call is made
\* and no further rollback() is invoked in that execute() call.
C7_CascadeHalts ==
    [][rollback_error # NoError => (calls' = calls /\ rolled' = rolled)]_vars

C7_Witness ==
    /\ pc = "done"
    /\ rollback_error # NoError
    /\ Len(executed_steps) = 3
    /\ Len(rolled) = 1

\* C8: after a failed rollback the recorded errors hold both the original
\* step failure and the rollback failure.
C8_RollbackFailureRecorded ==
    (pc = "done" /\ rollback_error # NoError) =>
        /\ pending \in Range(exceptions)
        /\ rollback_error \in Range(exceptions)

\* C9: the error execute() raises is the one the failing step's execute()
\* raised, never a failure of the rollback cascade.
C9_OriginalErrorRaised ==
    (pc = "done" /\ raised # NoError) =>
        /\ raised = pending
        /\ raised.name = step
        /\ raised.kind \in StepErrorKinds \cup {"Foreign"}
        /\ raised.phase \in {"None", "CHECK_INITIAL", "EXECUTE", "CHECK_FINAL"}
        /\ raised.kind \in StepErrorKinds => explained = 1

C9_Witness ==
    /\ pc = "done"
    /\ raised.kind = "Postcondition"
    /\ rollback_error.kind = "Execution"
    /\ rollback_error.phase = "ROLLBACK"

\* C10: the steps whose execute() was invoked are a prefix of the supplied
\* sequence, each once, and a step starts only after the execute() of the
\* one before it has returned.
C10_SuppliedOrder ==
    /\ Len(started) <= Len(steps)
    /\ \A k \in 1 .. Len(started) : started[k] = steps[k]
    /\ \A k \in 1 .. Len(started) - 1 : started[k] \in returned
    /\ \A k \in 1 .. Len(started) : Count(started, started[k]) = 1

C10_Witness ==
    /\ started = <<1, 2, 3>>
    /\ steps = <<1, 2, 3>>
    /\ pc = "check_initial"

\* C11: after the first step whose execute() failed, no later step is
\* attempted: the loop index stays, no later step is started and no
\* collaborator of a later step is called.
C11_NoStepAfterFailure ==
    pending # NoError =>
        /\ i <= Len(steps)
        /\ started = SubSeq(steps, 1, i)
        /\ \A k \in 1 .. Len(calls) : calls[k].step \in Range(SubSeq(steps, 1, i))
        /\ pc \notin {"loop", "check_initial", "precondition", "action",
                      "check_final", "postcondition", "append"}

C11_Witness ==
    /\ pc = "done"
    /\ raised.kind = "Execution"
    /\ raised.phase = "EXECUTE"
    /\ i = 1
    /\ Len(steps) = 3

\* C12: when every step has succeeded, execute() returns without error,
\* executed_steps is the supplied sequence, no error is recorded and no
\* rollback(), rollback-action or rollback check was ever invoked.
C12_AllSucceed ==
    (pc = "done" /\ pending = NoError) =>
        /\ raised = NoError
        /\ executed_steps = steps
        /\ exceptions = <<>>
        /\ reported = <<>>
        /\ rolled = <<>>
        /\ RollbackCalled = {}
        /\ explained = 0

C12_Witness ==
    /\ pc = "done"
    /\ raised = NoError
    /\ Len(executed_steps) = 3
    /\ sys # sys0

\* Outcomes of one execute() call.
SUCCEEDED == raised = NoError /\ rolled = <<>>

FAILED_ROLLED_BACK ==
    /\ raised # NoError
    /\ rollback_error = NoError
    /\ \A s \in Range(executed_steps) :
          \E k \in 1 .. Len(calls) : calls[k] = Call("check_rollback", s, TRUE)

FAILED_ROLLBACK_INCOMPLETE == raised # NoError /\ rollback_error # NoError

\* C13: a finished execute() call is in exactly one of the outcomes
\* SUCCEEDED, FAILED_ROLLED_BACK, FAILED_ROLLBACK_INCOMPLETE.
C13_ThreeOutcomes ==
    pc = "done" =>
        Cardinality({o \in {"S", "R", "I"} :
            \/ o = "S" /\ SUCCEEDED
            \/ o = "R" /\ FAILED_ROLLED_BACK
            \/ o = "I" /\ FAILED_ROLLBACK_INCOMPLETE}) = 1

\* C14: a false precondition makes execute() fail with a Precondition error
\* carrying the step and the state of the CHECK_INITIAL check; the action
\* and the CHECK_FINAL check of the step are not invoked; the initial state
\* is stored on the step before the precondition is evaluated.
C14_PreconditionError ==
    /\ pc = "precondition" => initial[step] = sys
    /\ pending.kind = "Precondition" =>
          /\ pending = PreconditionError(step, initial[step])
          /\ initial[step] \in States
          /\ pc = "except" => pending.state = sys
          /\ \A k \in 1 .. Len(calls) :
                calls[k].step = step =>
                    calls[k].op \notin {"action", "check_final"}

C14_Witness ==
    /\ pc = "done"
    /\ raised.kind = "Precondition"
    /\ raised.name = 2
    /\ raised.state = 1
    /\ sys0 = 0

\* C15: after the action, execute() succeeds iff the state of the
\* CHECK_FINAL check equals expected; otherwise it fails with a
\* Postcondition error carrying (step, final, expected), the action having
\* run.
C15_PostconditionError ==
    /\ pc = "append" => (final = sys /\ final = expected[step])
    /\ pending.kind = "Postcondition" =>
          /\ pending = PostconditionError(step, final, expected[step])
          /\ final # expected[step]
          /\ step \in ActionOk
    /\ (pc = "except" /\ pending.kind = "Postcondition") =>
          /\ final = sys
          /\ calls[Len(calls)] = Call("check_final", step, TRUE)

C15_Witness ==
    /\ pc = "except"
    /\ pending.kind = "Postcondition"
    /\ pending.state = 0
    /\ pending.expected_state = 1
    /\ pending.name = 2

\* The phase of each wrapped call site.
PhaseOf(op) ==
    CASE op = "check_initial" -> "CHECK_INITIAL"
      [] op = "action" -> "EXECUTE"
      [] op = "check_final" -> "CHECK_FINAL"
      [] op = "rollback_action" -> "ROLLBACK"
      [] op = "check_rollback" -> "CHECK_ROLLBACK"
      [] OTHER -> "None"

ExecuteOps == {"check_initial", "action", "check_final"}
RollbackOps == {"rollback_action", "check_rollback"}

\* The failed calls of the wrapped collaborators, by position in the log.
FailedCalls(ops) ==
    {k \in 1 .. Len(calls) : calls[k].op \in ops /\ ~calls[k].ok}

\* C16: a failed check, action or rollback-action surfaces as an Execution
\* error whose phase is that of the call site, and an Execution error comes
\* from such a failed call only; Precondition and Postcondition errors are
\* never wrapped.
C16_PhaseOfCallSite ==
    /\ \A k \in FailedCalls(ExecuteOps) :
          pending = ExecutionError(calls[k].step, PhaseOf(calls[k].op))
    /\ \A k \in FailedCalls(RollbackOps) :
          rollback_error = ExecutionError(calls[k].step, PhaseOf(calls[k].op))
    /\ pending.kind = "Execution" => FailedCalls(ExecuteOps) # {}
    /\ rollback_error.kind = "Execution" => FailedCalls(RollbackOps) # {}
    /\ pending.kind \in {"Precondition", "Postcondition"} =>
          /\ FailedCalls(ExecuteOps) = {}
          /\ pending.phase = "None"
          /\ pc = "done" => raised = pending

C16_Witness ==
    /\ pc = "done"
    /\ raised.kind = "Execution"
    /\ raised.phase = "CHECK_FINAL"
    /\ rollback_error.kind = "Execution"
    /\ rollback_error.phase = "CHECK_ROLLBACK"

\* The step whose rollback() was invoked last.
last_rolled == rolled[Len(rolled)]

\* C17: Step.rollback() calls the rollback-action and then the check; when
\* it returns without error the observed state is the initial state the
\* step stored in its execute(); when the observed state differs it fails
\* with a RollbackPostcondition error carrying (step, observed, initial).
C17_RollbackRoundTrip ==
    /\ \A k \in 1 .. Len(calls) :
          calls[k].op = "check_rollback" =>
              /\ k > 1
              /\ calls[k - 1] = Call("rollback_action", calls[k].step, TRUE)
    /\ (pc = "rollback" /\ rolled # <<>>) =>
          /\ sys = initial[last_rolled]
          /\ rollback_error = NoError
          /\ calls[Len(calls)] = Call("check_rollback", last_rolled, TRUE)
    /\ rollback_error.kind = "RollbackPostcondition" =>
          /\ rollback_error =
                RollbackPostconditionError(last_rolled, sys, initial[last_rolled])
          /\ sys # initial[last_rolled]
          /\ initial[last_rolled] \in States

C17_Witness ==
    /\ pc = "done"
    /\ rollback_error.kind = "RollbackPostcondition"
    /\ rollback_error.name = 2
    /\ rolled = <<1, 2>>
    /\ 2 \in ActionOk

\* The rollback cascade has ended: completed, or halted by a failure.
CascadeEnded ==
    /\ at_rollback = executed_steps
    /\ \/ r > Len(executed_steps)
       \/ rollback_error # NoError

C19_FlushOnce ==
    /\ pc = "done" =>
          flushed = IF stdout_variable /\ raised = NoError THEN 1 ELSE 0
    /\ flushed > 0 =>
          /\ pc = "done"
          /\ executed_steps = steps
          /\ pending = NoError

C19_Witness ==
    /\ pc = "done"
    /\ flushed = 1
    /\ stdout_variable
    /\ Len(steps) = 3

\* Positions in the log of the calls of one operation of one step.
CallsOf(op, s) ==
    {k \in 1 .. Len(calls) : calls[k].op = op /\ calls[k].step = s}

\* C20: a step's rollback-action is invoked only after that step's action
\* was invoked and returned without failure; each step's action and each
\* step's rollback-action is invoked at most once.
C20_NoCompensationWithoutCommitment ==
    \A s \in StepIds :
        /\ Cardinality(CallsOf("action", s)) <= 1
        /\ Cardinality(CallsOf("rollback_action", s)) <= 1
        /\ \A k \in CallsOf("rollback_action", s) :
              \E j \in CallsOf("action", s) : j < k /\ calls[j].ok

C20_Witness ==
    /\ pc = "done"
    /\ CallsOf("rollback_action", 3) # {}
    /\ raised.kind = "Execution"
    /\ raised.phase = "CHECK_FINAL"
    /\ raised.name = 3

IsPrefix(s, t) == Len(s) <= Len(t) /\ s = SubSeq(t, 1, Len(s))

\* C21: executed_steps is always a duplicate-free prefix of the supplied
\* sequence; it only grows, also during and after the rollback cascade; the
\* supplied sequence is never modified.
C21_ExecutedPrefix ==
    /\ [](/\ IsPrefix(executed_steps, steps)
          /\ \A s \in Range(executed_steps) : Count(executed_steps, s) = 1)
    /\ [][/\ IsPrefix(executed_steps, executed_steps')
          /\ steps' = steps]_vars

C21_Witness ==
    /\ pc = "done"
    /\ executed_steps = <<1, 2, 3>>
    /\ rolled = <<1, 2, 3>>
    /\ rollback_error = NoError

\* C22: the recorded error list holds at most one error; it is empty while
\* every attempted step has succeeded, and when execute() has failed it
\* holds exactly the error raised to the caller.
C22_AtMostOneError ==
    /\ Len(exceptions) <= 1
    /\ pending = NoError => exceptions = <<>>
    /\ (pc = "done" /\ raised # NoError) => exceptions = <<raised>>

====
